---- MODULE Spec2Model ----
(***************************************************************************)
(* Model of the signal-driven long/short pipeline.                         *)
(*                                                                         *)
(*   Spec       Scripts/generate_data.py: generate_synthetic_dataset, one  *)
(*              action per iteration of its day loop, select_vanish_batch  *)
(*              as the set of results its random draws can produce.        *)
(*   SpecTrade  Scripts/flag_dataset.py followed by                        *)
(*              Scripts/build_trading_dataset.py on a clean panel.         *)
(*                                                                         *)
(* Tickers are the integers of their names ("C7" is 7).  Dates are the     *)
(* indices of the trading calendar.  simulate_next adds normal noise to    *)
(* the last signal, so every value is a possible next signal whatever the  *)
(* last one was: the generator draws each day's signals afresh from a      *)
(* small set and keeps of the states map its keys.  The close of a row of  *)
(* the clean panel is a positive price; only its presence is read.         *)
(* Weights are in units of 1/6000, so that 0.80 is 4800 and -0.20 is -1200 *)
(* and the divisions by the numbers of longs and shorts are exact.         *)
(***************************************************************************)
EXTENDS Integers, Sequences, FiniteSets, TLC

\* ---------------------------------------------------------------- bounds
\* the generator: universe size, calendar length, batch range, signal values
MaxUniverse == 4
NumDays == 5
MaxBatch == 3
MaxSignal == 1
\* one call of select_vanish_batch: pool size, drawn batch size, signal values
MaxPool == 5
MaxDrawn == 4
MaxPoolSignal == 2
\* the flagger and the rebalance engine: tickers and dates of the panel,
\* holding periods, long and short counts
NumTickers == 3
NumDates == 7
MaxHold == 3
MaxLongs == 2
MaxShorts == 2

\* the flagger on a frame as read: tickers, dates and rows of the frame
FlagTickers == 2
FlagDates == 3
MaxRows == 3

\* one ticker state under simulate_next: the initial price, the size of the
\* factor 1 + drift + shock in halves, and the number of calls
MaxInitPrice == 4
MaxFactor == 3
MaxTicks == 3

\* ------------------------------------------------------ program constants
TOP_PERCENTILE == 10
BOTTOM_PERCENTILE == 10
VANISH_GAP_OPTIONS == {2, 3, 4, 5}
\* flag_dataset.py line 57: between(1, 3)
UNSAFE_FROM == 1
UNSAFE_TO == 3
\* generate_data.py line 95: the floor 0.5 of a price, in quarters
PRICE_FLOOR == 2

\* build_trading_dataset.py lines 15-16, in units of 1/6000 of the capital
\* (0.80 and -0.20; every count of longs or shorts up to 6 divides them)
LONG_ALLOCATION == 4800
SHORT_ALLOCATION == -1200

Signals == 0..MaxSignal

PoolSignals == 0..MaxPoolSignal

VARIABLES
  \* generate_synthetic_dataset: parameters
  initial_universe, vanish_batch_min, vanish_batch_max,
  \* generate_synthetic_dataset: locals
  i, active, states, next_id, next_vanish_day, to_remove_next_day,
  history_records, df, pc,
  \* for every vanish event so far: its day, its batch_size, the tickers of
  \* chosen and the names of its replacements
  vanish_log,
  \* one call of select_vanish_batch: its arguments (history_signals as the
  \* today_signal it is read into), its result chosen, and where the call is
  active_tickers, today_signal, batch_size, chosen, call,
  \* build_trading_dataset.py: the configuration at the top of the module
  HOLDING_PERIOD, N_LONGS, N_SHORTS,
  \* data/synthetic_clean.csv and data/synthetic_flagged.csv
  clean_df, flagged_df,
  \* build_trading_dataset: the pivots, their index, the weights frame, the
  \* index i of the loop, and the stage of the pipeline
  dates, prices, signals, unsafe, weights, date_i, stage,
  \* flag_dataset run on a frame as read: the frame of INPUT_FILE in its row
  \* order, the frame saved, the frame a second run reads and the frame it
  \* saves, and where the runs are
  flag_input, flag_output, reflag_input, reflag_output, flag_pc,
  \* one TickerState under simulate_next: its last_price, and for every call
  \* the factor 1 + drift + shock and the price returned
  last_price, ticks

genVars == <<initial_universe, vanish_batch_min, vanish_batch_max, i, active,
             states, next_id, next_vanish_day, to_remove_next_day,
             history_records, df, pc, vanish_log>>

selVars == <<active_tickers, today_signal, batch_size, chosen, call>>

tradeVars == <<HOLDING_PERIOD, N_LONGS, N_SHORTS, clean_df, flagged_df, dates,
               prices, signals, unsafe, weights, date_i, stage>>

flagVars == <<flag_input, flag_output, reflag_input, reflag_output, flag_pc>>

priceVars == <<last_price, ticks>>

sideVars == <<flagVars, priceVars>>

vars == <<genVars, selVars, tradeVars, sideVars>>

\* ---------------------------------------------------------------- helpers
Range(s) == {s[k] : k \in DOMAIN s}

Max2(a, b) == IF a >= b THEN a ELSE b

Min2(a, b) == IF a <= b THEN a ELSE b

\* math.ceil(n * p) for a percentile p given in percent
CeilPct(n, pct) == (n * pct + 99) \div 100

\* the first index of t in s (s.index(t)), 0 when absent
IndexOf(s, t) ==
  IF t \in Range(s) THEN CHOOSE k \in DOMAIN s : s[k] = t /\ \A j \in 1..(k - 1) : s[j] # t
  ELSE 0

\* list.remove(t): drop the first occurrence of t
ListRemove(s, t) ==
  LET k == IndexOf(s, t)
  IN  IF k = 0 THEN s ELSE SubSeq(s, 1, k - 1) \o SubSeq(s, k + 1, Len(s))

RECURSIVE RemoveEach(_, _)
RemoveEach(s, S) ==
  IF S = {} THEN s
  ELSE LET t == CHOOSE x \in S : TRUE
       IN  RemoveEach(ListRemove(s, t), S \ {t})

\* ranked[a:b] of Python, 0-based half-open, a and b already non-negative
Slice(s, a, b) ==
  LET lo == Min2(a, Len(s))
      hi == Min2(b, Len(s))
  IN  IF lo >= hi THEN <<>> ELSE SubSeq(s, lo + 1, hi)

\* every ordering of k distinct members of S: random.sample(list(S), k)
RECURSIVE Samples(_, _)
Samples(S, k) ==
  IF k = 0 THEN {<<>>}
  ELSE UNION {{<<x>> \o p : p \in Samples(S \ {x}, k - 1)} : x \in S}

\* the counter reset at a vanish event: a replacement gets the name of one of
\* the initial tickers
next_ticker_name_reused(id) ==
  IF id > initial_universe /\ initial_universe > 0 THEN id - initial_universe ELSE id

\* line 64: the name "C<id>"
next_ticker_name(id) == id

\* ------------------------------------------------- select_vanish_batch
\* sorted(active_tickers, key=today_signal, reverse=True): stable, so equal
\* signals keep the order of the active list
Ranked(act, sig) ==
  LET before(u, t) ==
        \/ sig[u] > sig[t]
        \/ sig[u] = sig[t] /\ IndexOf(act, u) < IndexOf(act, t)
      pos(t) == Cardinality({u \in Range(act) : before(u, t)}) + 1
  IN  [k \in 1..Len(act) |-> CHOOSE t \in Range(act) : pos(t) = k]

\* the top stratum taken to be the whole ranked list
TopK_whole(n) == n

TopK(n) == Max2(1, CeilPct(n, TOP_PERCENTILE))

BottomK(n) == Max2(1, CeilPct(n, BOTTOM_PERCENTILE))

\* lines 133-135: the three strata of a ranked list
\* the slice one too long: ranked[:top_k + 1]
TopGroup_wide(ranked) == Range(Slice(ranked, 0, TopK(Len(ranked)) + 1))

TopGroup(ranked) == Range(Slice(ranked, 0, TopK(Len(ranked))))

BottomGroup(ranked) ==
  LET n == Len(ranked)
  IN  Range(Slice(ranked, Max2(0, n - BottomK(n)), n))

MiddleGroup(ranked) ==
  LET n == Len(ranked)
  IN  Range(Slice(ranked, TopK(n), Max2(0, n - BottomK(n))))

\* lines 161-163: the label of a ticker of the random fill
GroupOf(t, top_group, bottom_group) ==
  IF t \in top_group THEN "top" ELSE IF t \in bottom_group THEN "bottom" ELSE "mid"

\* what a call that raises leaves: no result
Failure == [ok |-> FALSE, chosen |-> <<>>]

\* lines 154-164: the random fill of the remaining slots; random.sample raises
\* when asked for more than there are candidates
FillRemaining(picked, used, pool, top_group, bottom_group, size) ==
  LET remaining == size - Len(picked)
      candidates == pool \ used
  IN  IF remaining > 0
      THEN IF remaining > Cardinality(candidates)
           THEN {Failure}
           ELSE {[ok |-> TRUE,
                  chosen |-> picked \o [k \in 1..remaining |->
                                          <<p[k], GroupOf(p[k], top_group, bottom_group)>>]]
                 : p \in Samples(candidates, remaining)}
      ELSE {[ok |-> TRUE, chosen |-> picked]}

\* lines 149-152: the middle pick, made when the middle stratum has a ticker left
PickMiddle(picked, used, pool, top_group, bottom_group, middle_group, size) ==
  LET mids == middle_group \ used
  IN  IF Cardinality(mids) > 0
      THEN UNION {FillRemaining(Append(picked, <<t, "mid">>), used \cup {t},
                                pool, top_group, bottom_group, size) : t \in mids}
      ELSE FillRemaining(picked, used, pool, top_group, bottom_group, size)

\* lines 145-147: the bottom pick; random.choice of an empty list raises
PickBottom(picked, used, pool, top_group, bottom_group, middle_group, size) ==
  LET bots == bottom_group \ used
  IN  IF bots = {} THEN {Failure}
      ELSE UNION {PickMiddle(Append(picked, <<t, "bottom">>), used \cup {t}, pool,
                             top_group, bottom_group, middle_group, size) : t \in bots}

\* lines 141-143: the top pick; random.choice of an empty list raises
PickTop(pool, top_group, bottom_group, middle_group, size) ==
  IF top_group = {} THEN {Failure}
  ELSE UNION {PickBottom(<<<<t, "top">>>>, {t}, pool,
                         top_group, bottom_group, middle_group, size) : t \in top_group}

\* every result select_vanish_batch can return, and Failure where it raises
select_vanish_batch(act, sig, size) ==
  LET ranked == Ranked(act, sig)
  IN  PickTop(Range(act), TopGroup(ranked), BottomGroup(ranked), MiddleGroup(ranked), size)

ChosenTickers(picked) == {picked[k][1] : k \in DOMAIN picked}

\* the flagger and the rebalance engine are not run
TradeIdle ==
  /\ HOLDING_PERIOD = 0 /\ N_LONGS = 0 /\ N_SHORTS = 0
  /\ clean_df = {} /\ flagged_df = <<>>
  /\ dates = <<>> /\ prices = <<>> /\ signals = <<>> /\ unsafe = <<>>
  /\ weights = <<>> /\ date_i = 0 /\ stage = "idle"

\* no run of the flagger on a frame as read is followed
FlagIdle ==
  /\ flag_input = <<>> /\ flag_output = <<>>
  /\ reflag_input = <<>> /\ reflag_output = <<>>
  /\ flag_pc = "idle"

\* no ticker state is followed
PriceIdle == last_price = 0 /\ ticks = <<>>

SideIdle == FlagIdle /\ PriceIdle

\* ------------------------------------------- generate_synthetic_dataset
\* initialize_universe(n): the keys of the states map, C1..Cn
initialize_universe(n) == {next_ticker_name(k) : k \in 1..n}

\* no call of select_vanish_batch is followed on its own
NoCall ==
  /\ active_tickers = <<>>
  /\ today_signal = <<>>
  /\ batch_size = 0
  /\ chosen = <<>>
  /\ call = "none"

GenInit ==
  /\ initial_universe \in 1..MaxUniverse
  /\ vanish_batch_min \in 1..MaxBatch
  /\ vanish_batch_max \in vanish_batch_min..MaxBatch
  /\ states = initialize_universe(initial_universe)
  /\ next_id = initial_universe + 1
  /\ active = [k \in 1..initial_universe |-> next_ticker_name(k)]
  /\ history_records = <<>>
  /\ next_vanish_day \in VANISH_GAP_OPTIONS
  /\ to_remove_next_day = {}
  /\ vanish_log = {}
  /\ df = <<>>
  /\ i = 0
  /\ pc = "loop"
  /\ NoCall
  /\ TradeIdle
  /\ SideIdle

\* yesterday's batch dropped from the states map and left in the active list
ActiveAfterRemoval_kept == active

\* lines 195-199: drop yesterday's batch from the active list and the states map
ActiveAfterRemoval == RemoveEach(active, to_remove_next_day)

StatesAfterRemoval == states \ to_remove_next_day

\* active.remove raises for a ticker that is not in the list, del states[t] for
\* one that is not in the map, states[t] for an active ticker without a state
RemovalRaises ==
  \/ \E t \in to_remove_next_day : t \notin Range(active) \/ t \notin states
  \/ \E t \in Range(ActiveAfterRemoval) : t \notin StatesAfterRemoval

\* the second append of the tick loop made to history_records as well
RecordsAfterTick_twice ==
  history_records \o
    [k \in 1..(2 * Len(ActiveAfterRemoval)) |-> <<i, ActiveAfterRemoval[(k + 1) \div 2]>>]

\* lines 201-205: one record per entry of the active list, in its order
RecordsAfterTick ==
  history_records \o [k \in 1..Len(ActiveAfterRemoval) |-> <<i, ActiveAfterRemoval[k]>>]

\* the pending set left empty
PendingRemoval_none(batch) == {}

\* line 216: the tickers of chosen, to remove tomorrow
PendingRemoval(batch) == batch

\* one replacement too few: range(len(chosen) - 1)
ReplacementNames_short(count) ==
  [k \in 1..(count - 1) |-> next_ticker_name(next_id + k - 1)]

\* lines 219-221: the names of the replacements of one vanish event
ReplacementNames(count) == [k \in 1..count |-> next_ticker_name(next_id + k - 1)]

\* the gap taken as the day itself: random.choice(vanish_gap_options) alone
ScheduleNext_absolute(today, gap) == IF gap >= NumDays THEN -1 ELSE gap

\* lines 229-232: the next vanish day, -1 when it is past the calendar
ScheduleNext(today, gap) == IF today + gap >= NumDays THEN -1 ELSE today + gap

\* line 211: the drawn batch size, clamped
ClampBatch(drawn, n) == Min2(drawn, n - 1)

\* a loop iteration that raises while it removes or ticks
Raise ==
  /\ pc' = "error"
  /\ UNCHANGED <<initial_universe, vanish_batch_min, vanish_batch_max, i, active,
                 states, next_id, next_vanish_day, to_remove_next_day,
                 history_records, df, vanish_log, selVars, tradeVars, sideVars>>

\* one iteration of the day loop on a day that is not a vanish day
DayQuiet ==
  /\ pc = "loop" /\ i < NumDays /\ i # next_vanish_day
  /\ IF RemovalRaises THEN Raise
     ELSE /\ active' = ActiveAfterRemoval
          /\ states' = StatesAfterRemoval
          /\ to_remove_next_day' = {}
          /\ history_records' = RecordsAfterTick
          /\ i' = i + 1
          /\ UNCHANGED <<initial_universe, vanish_batch_min, vanish_batch_max,
                         next_id, next_vanish_day, vanish_log, df, pc, selVars,
                         tradeVars, sideVars>>

\* lines 210-216: what one vanish event can come to, over the draws of the
\* day's signals, of randint and of select_vanish_batch: the clamped batch
\* size, whether the call returned, the tickers of chosen and len(chosen)
VanishOutcomes(act) ==
  UNION {{[size |-> ClampBatch(drawn, Len(act)), ok |-> out.ok,
           batch |-> ChosenTickers(out.chosen), count |-> Len(out.chosen)]
          : out \in UNION {select_vanish_batch(act, sig, ClampBatch(drawn, Len(act)))
                           : sig \in [Range(act) -> Signals]}}
         : drawn \in vanish_batch_min..vanish_batch_max}

\* one iteration of the day loop on a vanish day
DayVanish ==
  /\ pc = "loop" /\ i < NumDays /\ i = next_vanish_day
  /\ IF RemovalRaises THEN Raise
     ELSE \E out \in VanishOutcomes(ActiveAfterRemoval), gap \in VANISH_GAP_OPTIONS :
          LET act == ActiveAfterRemoval
              names == ReplacementNames(out.count)
          IN  /\ active' = (IF out.ok THEN act \o names ELSE act)
              /\ states' = (IF out.ok THEN StatesAfterRemoval \cup Range(names)
                            ELSE StatesAfterRemoval)
              /\ to_remove_next_day' = PendingRemoval(out.batch)
              /\ next_id' = next_id + out.count
              /\ next_vanish_day' = (IF out.ok THEN ScheduleNext(i, gap)
                                     ELSE next_vanish_day)
              /\ history_records' = RecordsAfterTick
              /\ vanish_log' = (IF out.ok
                                THEN vanish_log \cup
                                       {[day |-> i, batch_size |-> out.size,
                                         batch |-> out.batch, names |-> Range(names)]}
                                ELSE vanish_log)
              /\ i' = (IF out.ok THEN i + 1 ELSE i)
              /\ pc' = (IF out.ok THEN pc ELSE "error")
              /\ UNCHANGED <<initial_universe, vanish_batch_min, vanish_batch_max,
                             df, selVars, tradeVars, sideVars>>

\* lines 234-243: the records become the frame; sort_values reorders its rows
\* and keeps every one of them, so the frame is held in the order of the records
GenFinish ==
  /\ pc = "loop" /\ i = NumDays
  /\ df' = history_records
  /\ pc' = "done"
  /\ UNCHANGED <<initial_universe, vanish_batch_min, vanish_batch_max, i, active,
                 states, next_id, next_vanish_day, to_remove_next_day,
                 history_records, vanish_log, selVars, tradeVars, sideVars>>

GenNext == DayQuiet \/ DayVanish \/ GenFinish

Spec == GenInit /\ [][GenNext]_vars

\* ------------------------------------------------ the panel of records
\* the tickers with a record on day d
RecordedOn(d) == {history_records[k][2] : k \in {j \in DOMAIN history_records :
                                                   history_records[j][1] = d}}

\* the days on which ticker t has a record
DaysOf(t) == {history_records[k][1] : k \in {j \in DOMAIN history_records :
                                               history_records[j][2] = t}}

TickersRecorded == {history_records[k][2] : k \in DOMAIN history_records}

\* the days the loop has ticked: those before i, and day i itself when the
\* iteration raised after its records were appended
DaysTicked == {d \in 0..(NumDays - 1) : d < i \/ RecordedOn(d) # {}}

\* C1: on every trading day the generator has ticked, the number of distinct
\* tickers with a record of that day is initial_universe.
C1_UniverseSizeConstant ==
  \A d \in DaysTicked : Cardinality(RecordedOn(d)) = initial_universe

\* C1 witness: a finished run in which a vanish batch larger than one ticker
\* was removed and replaced before the calendar ended.
C1_Witness ==
  /\ pc = "done"
  /\ initial_universe >= 4
  /\ \E e \in vanish_log : e.day + 1 < NumDays /\ Cardinality(e.batch) >= 3

\* C2: every ticker's record days are one run of consecutive trading days, and
\* names come from the counter: each name in use is below next_id, the active
\* list holds no name twice, and a replacement's name had no record before.
C2_ContiguousLifetimes ==
  /\ \A t \in TickersRecorded :
       \A d \in 0..(NumDays - 1) :
         (\E a \in DaysOf(t) : a <= d) /\ (\E b \in DaysOf(t) : d <= b) => d \in DaysOf(t)
  /\ \A t \in TickersRecorded \cup Range(active) : 1 <= t /\ t < next_id
  /\ Cardinality(Range(active)) = Len(active)
  /\ \A e \in vanish_log : \A t \in e.names : \A d \in DaysOf(t) : d > e.day

\* C2 witness: a finished run with a retired ticker whose records end before
\* the calendar does and a replacement whose records start after day 0.
C2_Witness ==
  /\ pc = "done"
  /\ \E t \in TickersRecorded : \A d \in DaysOf(t) : d + 2 < NumDays
  /\ \E t \in TickersRecorded : 0 \notin DaysOf(t) /\ Cardinality(DaysOf(t)) >= 2

\* C3: for every vanish event on a day d that is not the last of the calendar,
\* each ticker of the batch has a record on d and none after d, and each
\* replacement has no record up to d and has one on d + 1 once d + 1 is ticked.
C3_VanishNextDay ==
  \A e \in vanish_log :
    e.day < NumDays - 1 =>
      /\ \A t \in e.batch : e.day \in DaysOf(t) /\ \A d \in DaysOf(t) : d <= e.day
      /\ \A t \in e.names :
           /\ \A d \in DaysOf(t) : d > e.day
           /\ e.day + 1 \in DaysTicked => e.day + 1 \in DaysOf(t)

\* C3 witness: the day after a vanish event has been ticked and one more.
C3_Witness ==
  \E e \in vanish_log : e.day + 2 < i /\ e.batch # {} /\ e.names # {}

\* -------------------------------------- select_vanish_batch on its own
\* the generator's variables while one call is followed on its own
GenIdle ==
  /\ initial_universe = 0 /\ vanish_batch_min = 0 /\ vanish_batch_max = 0
  /\ i = 0 /\ active = <<>> /\ states = {} /\ next_id = 0
  /\ next_vanish_day = -1 /\ to_remove_next_day = {}
  /\ history_records = <<>> /\ df = <<>> /\ vanish_log = {} /\ pc = "idle"

\* the arguments generate_synthetic_dataset calls it with (lines 210-213): the
\* active list (names ascending, as the day loop keeps it), the signals of the
\* day, and the drawn batch size clamped to len(active) - 1
SelInit ==
  /\ GenIdle
  /\ TradeIdle
  /\ SideIdle
  /\ \E n \in 1..MaxPool, drawn \in 1..MaxDrawn :
       /\ active_tickers = [k \in 1..n |-> next_ticker_name(k)]
       /\ today_signal \in [{next_ticker_name(k) : k \in 1..n} -> PoolSignals]
       /\ batch_size = ClampBatch(drawn, n)
  /\ chosen = <<>>
  /\ call = "ready"

\* the call: it returns chosen, or raises
SelCall ==
  /\ call = "ready"
  /\ \E out \in select_vanish_batch(active_tickers, today_signal, batch_size) :
       /\ chosen' = out.chosen
       /\ call' = (IF out.ok THEN "returned" ELSE "raised")
  /\ UNCHANGED <<genVars, tradeVars, sideVars, active_tickers, today_signal, batch_size>>

SelNext == SelCall

SpecSelect == SelInit /\ [][SelNext]_vars

\* the number of pool tickers sorted before t: a higher signal, or the same
\* signal and an earlier place in the active list
RankedBefore(t) ==
  Cardinality({u \in Range(active_tickers) :
                 \/ today_signal[u] > today_signal[t]
                 \/ /\ today_signal[u] = today_signal[t]
                    /\ IndexOf(active_tickers, u) < IndexOf(active_tickers, t)})

\* ceil(10% of n), at least 1
StratumSize == Max2(1, (Len(active_tickers) + 9) \div 10)

InTopStratum(t) == RankedBefore(t) < StratumSize

InBottomStratum(t) == Len(active_tickers) - 1 - RankedBefore(t) < StratumSize

InMiddleStratum(t) == ~InTopStratum(t) /\ ~InBottomStratum(t)

\* C4: a returned batch holds a ticker of the top stratum, one of the bottom
\* stratum and, when a pool ticker is in neither, one of the middle stratum.
C4_StratifiedBatch ==
  call = "returned" =>
    /\ \E t \in ChosenTickers(chosen) : InTopStratum(t)
    /\ \E t \in ChosenTickers(chosen) : InBottomStratum(t)
    /\ (\E u \in Range(active_tickers) : InMiddleStratum(u))
         => \E t \in ChosenTickers(chosen) : InMiddleStratum(t)

\* C4 witness: a batch returned for a pool of five with tied signals, whose
\* top-ranked ticker is not the first of the list.
C4_Witness ==
  /\ call = "returned"
  /\ Len(active_tickers) = 5
  /\ today_signal[1] < today_signal[3] /\ today_signal[3] = today_signal[4]
  /\ 3 \in ChosenTickers(chosen)

\* C5 (as claimed): a returned batch has exactly batch_size distinct tickers.
C5_ExactlyBatchSize ==
  call = "returned" =>
    /\ Len(chosen) = batch_size
    /\ Cardinality(ChosenTickers(chosen)) = batch_size

\* ------------------------------------------------------------ the panel
Tickers == 1..NumTickers

\* a clean panel shaped as the generator shapes it around one vanish event on
\* day v: a ticker stays through the calendar, or vanishes after day v, or is a
\* replacement that starts on day v + 1
Roles == {"stay", "vanish", "replacement"}

Lifetime(role, v) ==
  IF role = "stay" THEN 0..(NumDates - 1)
  ELSE IF role = "vanish" THEN 0..v ELSE (v + 1)..(NumDates - 1)

\* the signal of every ticker: pairwise distinct, or tied two by two
SignalProfiles == {[t \in Tickers |-> t], [t \in Tickers |-> (t + 1) \div 2]}

\* every trading day has rows: the first ticker lives through the calendar
PanelRoles == {role \in [Tickers -> Roles] : role[1] = "stay"}

CleanPanels ==
  {UNION {{[date |-> d, ticker |-> t, close |-> 1, signal |-> sig[t]]
             : d \in Lifetime(role[t], v)} : t \in Tickers}
   : v \in 0..(NumDates - 1), role \in PanelRoles, sig \in SignalProfiles}

\* ------------------------------------------------------- flag_dataset
\* line 34: sort_values(["ticker", "date"]) of a frame without duplicate keys
SortedByTickerDate(rows) ==
  LET less(a, b) == a.ticker < b.ticker \/ (a.ticker = b.ticker /\ a.date < b.date)
      place(r) == Cardinality({q \in rows : less(q, r)}) + 1
  IN  [p \in 1..Cardinality(rows) |-> CHOOSE r \in rows : place(r) = p]

\* the rank taken in ascending order: ascending=True
RankDesc_ascending(sorted, p) ==
  1 + Cardinality({q \in DOMAIN sorted :
                     /\ sorted[q].ticker = sorted[p].ticker
                     /\ \/ sorted[q].date < sorted[p].date
                        \/ sorted[q].date = sorted[p].date /\ q < p})

\* lines 40-42: groupby("ticker")["date"].rank(method="first", ascending=False):
\* one more than the rows of the ticker with a later date, equal dates ranked
\* in the order of the frame
RankDesc(sorted, p) ==
  1 + Cardinality({q \in DOMAIN sorted :
                     /\ sorted[q].ticker = sorted[p].ticker
                     /\ \/ sorted[q].date > sorted[p].date
                        \/ sorted[q].date = sorted[p].date /\ q < p})

\* the upper end left out
Between_exclusive(d, lo, hi) == lo <= d /\ d < hi

\* Series.between(lo, hi), both ends included
Between(d, lo, hi) == lo <= d /\ d <= hi

\* lines 47-57: the derived columns of one row
FlaggedRow(sorted, p) ==
  LET days == RankDesc(sorted, p) - 1
  IN  [date |-> sorted[p].date, ticker |-> sorted[p].ticker,
       close |-> sorted[p].close, signal |-> sorted[p].signal,
       days_to_vanish_trading |-> days,
       disappears_t1 |-> (days = 1),
       disappears_t2 |-> (days = 2),
       disappears_t3 |-> (days = 3),
       unsafe_to_trade |-> Between(days, UNSAFE_FROM, UNSAFE_TO)]

\* the frame flag_dataset saves
flag_dataset(rows) ==
  LET sorted == SortedByTickerDate(rows)
  IN  [p \in DOMAIN sorted |-> FlaggedRow(sorted, p)]

\* ---------------------------------------------- build_trading_dataset
\* a cell of a frame: NaN, or a value
NaN == <<>>

Num(w) == <<w>>

\* lines 18-19
LONG_W == LONG_ALLOCATION \div N_LONGS

\* the short weight divided by the number of longs
SHORT_W_by_longs == SHORT_ALLOCATION \div N_LONGS

SHORT_W == SHORT_ALLOCATION \div N_SHORTS

FlaggedRows == Range(flagged_df)

\* the index of a pivot: the dates of the frame, ascending
PivotIndex(rows) ==
  LET ds == {r.date : r \in rows}
  IN  [k \in 1..Cardinality(ds) |-> CHOOSE d \in ds : Cardinality({e \in ds : e < d}) = k - 1]

\* the columns of a pivot: the tickers of the frame
PivotColumns(rows) == {r.ticker : r \in rows}

\* lines 30-32: df.pivot(index="date", columns="ticker", values=field) of a
\* frame without duplicate keys; a pair without a row is NaN
Pivot(rows, field) ==
  LET index == PivotIndex(rows)
  IN  [k \in DOMAIN index |->
        [t \in PivotColumns(rows) |->
           LET cell == {r \in rows : r.date = index[k] /\ r.ticker = t}
           IN  IF cell = {} THEN NaN ELSE Num((CHOOSE r \in cell : TRUE)[field])]]

\* lines 32-34: the unsafe pivot, fillna(True)
FillnaTrue(frame) ==
  [k \in DOMAIN frame |->
    [t \in DOMAIN frame[k] |-> IF frame[k][t] = NaN THEN TRUE ELSE frame[k][t][1]]]

\* prices.columns
Columns == IF Len(prices) = 0 THEN {} ELSE DOMAIN prices[1]

\* the day after every rebalance day taken for it
IsRebalanceDay_late(k) == k % HOLDING_PERIOD = 1 % HOLDING_PERIOD

\* line 44
IsRebalanceDay(k) == k % HOLDING_PERIOD = 0

\* the unsafe flag not read
Tradable_unflagged(k) == {t \in Columns : signals[k + 1][t] # NaN}

\* lines 49-51: the tickers with a signal on day k that are not unsafe
Tradable(k) ==
  {t \in Columns : signals[k + 1][t] # NaN /\ unsafe[k + 1][t] = FALSE}

\* the window one day short: range(HOLDING_PERIOD)
LookaheadOffsets_short == 0..(HOLDING_PERIOD - 1)

\* line 58: range(HOLDING_PERIOD + 1)
LookaheadOffsets == 0..HOLDING_PERIOD

\* the tradable tickers kept as they are when the window runs past the
\* calendar: the else branch left out
Survivors_tail(k) ==
  IF k + HOLDING_PERIOD < Len(dates)
  THEN {t \in Tradable(k) : \A off \in LookaheadOffsets : prices[k + off + 1][t] # NaN}
  ELSE Tradable(k)

\* lines 53-67: the tradable tickers with a price on every day of the window,
\* none when the window runs past the calendar
Survivors(k) ==
  IF k + HOLDING_PERIOD < Len(dates)
  THEN {t \in Tradable(k) : \A off \in LookaheadOffsets : prices[k + off + 1][t] # NaN}
  ELSE {}

\* the longs taken from the ascending sort
LongChoices_ascending(k, pool) ==
  {L \in SUBSET pool :
     /\ Cardinality(L) = Min2(N_LONGS, Cardinality(pool))
     /\ \A a \in L, b \in pool \ L : signals[k + 1][a][1] <= signals[k + 1][b][1]}

\* line 69: sort_values(ascending=False).head(N_LONGS).index; the sort is not
\* stable, so among equal signals any may come first
LongChoices(k, pool) ==
  {L \in SUBSET pool :
     /\ Cardinality(L) = Min2(N_LONGS, Cardinality(pool))
     /\ \A a \in L, b \in pool \ L : signals[k + 1][a][1] >= signals[k + 1][b][1]}

\* line 70: sort_values(ascending=True).head(N_SHORTS).index
ShortChoices(k, pool) ==
  {S \in SUBSET pool :
     /\ Cardinality(S) = Min2(N_SHORTS, Cardinality(pool))
     /\ \A a \in S, b \in pool \ S : signals[k + 1][a][1] <= signals[k + 1][b][1]}

\* the row not reset to 0.0 before the weights are written
RebalanceRow_sparse(longs, shorts) ==
  [t \in Columns |->
     IF t \in shorts THEN Num(SHORT_W)
     ELSE IF t \in longs THEN Num(LONG_W) ELSE NaN]

\* the longs written after the shorts
RebalanceRow_longs_last(longs, shorts) ==
  [t \in Columns |->
     IF t \in longs THEN Num(LONG_W)
     ELSE IF t \in shorts THEN Num(SHORT_W) ELSE Num(0)]

\* lines 47, 72-75: the row of a rebalance day; the shorts are written last
RebalanceRow(longs, shorts) ==
  [t \in Columns |->
     IF t \in shorts THEN Num(SHORT_W)
     ELSE IF t \in longs THEN Num(LONG_W) ELSE Num(0)]

\* the pipeline starts from a clean panel and a configuration
TradeInit ==
  /\ GenIdle
  /\ NoCall
  /\ SideIdle
  /\ HOLDING_PERIOD \in 1..MaxHold
  /\ N_LONGS \in 1..MaxLongs
  /\ N_SHORTS \in 1..MaxShorts
  /\ clean_df \in CleanPanels
  /\ flagged_df = <<>>
  /\ dates = <<>> /\ prices = <<>> /\ signals = <<>> /\ unsafe = <<>>
  /\ weights = <<>>
  /\ date_i = 0
  /\ stage = "flag"

\* flag_dataset.py: the clean panel flagged and saved
FlagDataset ==
  /\ stage = "flag"
  /\ flagged_df' = flag_dataset(clean_df)
  /\ stage' = "load"
  /\ UNCHANGED <<genVars, selVars, sideVars, HOLDING_PERIOD, N_LONGS, N_SHORTS, clean_df,
                 dates, prices, signals, unsafe, weights, date_i>>

\* lines 27-38: the flagged panel pivoted, the weights frame all NaN
BuildLoad ==
  /\ stage = "load"
  /\ prices' = Pivot(FlaggedRows, "close")
  /\ signals' = Pivot(FlaggedRows, "signal")
  /\ unsafe' = FillnaTrue(Pivot(FlaggedRows, "unsafe_to_trade"))
  /\ weights' = [k \in DOMAIN PivotIndex(FlaggedRows) |->
                   [t \in PivotColumns(FlaggedRows) |-> NaN]]
  /\ dates' = PivotIndex(FlaggedRows)
  /\ date_i' = 0
  /\ stage' = "loop"
  /\ UNCHANGED <<genVars, selVars, sideVars, HOLDING_PERIOD, N_LONGS, N_SHORTS, clean_df,
                 flagged_df>>

\* lines 42-75: the iteration of a rebalance day
BuildRebalance ==
  /\ stage = "loop" /\ date_i < Len(dates)
  /\ IsRebalanceDay(date_i)
  /\ LET pool == Survivors(date_i)
     IN  \E longs \in LongChoices(date_i, pool), shorts \in ShortChoices(date_i, pool) :
           weights' = [weights EXCEPT ![date_i + 1] = RebalanceRow(longs, shorts)]
  /\ date_i' = date_i + 1
  /\ UNCHANGED <<genVars, selVars, sideVars, HOLDING_PERIOD, N_LONGS, N_SHORTS, clean_df,
                 flagged_df, dates, prices, signals, unsafe, stage>>

\* lines 42-44: the iteration of any other day
BuildHold ==
  /\ stage = "loop" /\ date_i < Len(dates)
  /\ ~IsRebalanceDay(date_i)
  /\ date_i' = date_i + 1
  /\ UNCHANGED <<genVars, selVars, sideVars, HOLDING_PERIOD, N_LONGS, N_SHORTS, clean_df,
                 flagged_df, dates, prices, signals, unsafe, weights, stage>>

\* lines 77-79: the frames saved
BuildFinish ==
  /\ stage = "loop" /\ date_i = Len(dates)
  /\ stage' = "done"
  /\ UNCHANGED <<genVars, selVars, sideVars, HOLDING_PERIOD, N_LONGS, N_SHORTS, clean_df,
                 flagged_df, dates, prices, signals, unsafe, weights, date_i>>

TradeNext == FlagDataset \/ BuildLoad \/ BuildRebalance \/ BuildHold \/ BuildFinish

SpecTrade == TradeInit /\ [][TradeNext]_vars

\* ------------------------------------------------- the weights, read back
\* the iterations the loop has completed
DaysBuilt == IF stage \in {"loop", "done"} THEN 0..(date_i - 1) ELSE {}

WeightAt(k, t) == weights[k + 1][t]

\* the tickers given a nonzero weight on day k
Selected(k) == {t \in Columns : WeightAt(k, t) # NaN /\ WeightAt(k, t) # Num(0)}

RECURSIVE SumOver(_, _)
SumOver(k, S) ==
  IF S = {} THEN 0
  ELSE LET t == CHOOSE x \in S : TRUE
       IN  WeightAt(k, t)[1] + SumOver(k, S \ {t})

SurvivorSignalsDistinct(k) ==
  \A a, b \in Survivors(k) : a # b => signals[k + 1][a] # signals[k + 1][b]

\* C6: on every rebalance day (index k with k % HOLDING_PERIOD = 0), every
\* ticker given a nonzero weight has a price on each of the days with index
\* k, k + 1, ..., k + HOLDING_PERIOD
C6_LookaheadPricesPresent ==
  \A k \in DaysBuilt :
    k % HOLDING_PERIOD = 0 =>
      \A t \in Selected(k) :
        \A off \in 0..HOLDING_PERIOD :
          /\ k + off < Len(prices)
          /\ prices[k + off + 1][t] # NaN

\* a finished build in which a rebalance day selected tickers while the window
\* check turned away a tradable ticker whose prices stop inside the window
C6_Witness ==
  /\ stage = "done"
  /\ \E k \in DaysBuilt :
       /\ k % HOLDING_PERIOD = 0
       /\ Selected(k) # {}
       /\ Tradable(k) \ Survivors(k) # {}

C8_RebalanceCadence ==
  /\ stage = "done" => date_i = Len(weights)
  /\ \A k \in DaysBuilt :
       IF k % HOLDING_PERIOD = 0
       THEN \A t \in Columns : WeightAt(k, t) # NaN
       ELSE \A t \in Columns : WeightAt(k, t) = NaN

\* a finished build over four days or more with a holding period above one,
\* so that hold days lie between rebalance days
C8_Witness ==
  /\ stage = "done"
  /\ HOLDING_PERIOD >= 2
  /\ Len(weights) >= HOLDING_PERIOD + 2
  /\ Columns # {}
  /\ \E k \in DaysBuilt : k > 0 /\ k % HOLDING_PERIOD = 0 /\ Selected(k) # {}

LaterRecords(r) == {q \in FlaggedRows : q.ticker = r.ticker /\ q.date > r.date}

\* C9: in the frame flag_dataset saves, days_to_vanish_trading of a record is
\* the number of later records of its ticker: never negative, 0 on the last
\* record of the ticker and only there, and one less on the next record of
\* the ticker
C9_DistanceCountsLaterRecords ==
  stage = "load" =>
    \A r \in FlaggedRows :
      /\ r.days_to_vanish_trading = Cardinality(LaterRecords(r))
      /\ r.days_to_vanish_trading >= 0
      /\ (r.days_to_vanish_trading = 0) <=> (LaterRecords(r) = {})
      /\ \A q \in LaterRecords(r) :
           (\A m \in LaterRecords(r) : m.date >= q.date) =>
             q.days_to_vanish_trading = r.days_to_vanish_trading - 1

\* a flagged panel with a ticker of four records or more and a ticker that
\* ends before the last day of the panel
C9_Witness ==
  /\ stage = "load"
  /\ \E r \in FlaggedRows : r.days_to_vanish_trading >= 3
  /\ \E r \in FlaggedRows :
       /\ r.days_to_vanish_trading = 0
       /\ \E q \in FlaggedRows : q.date > r.date

\* C10 as stated: in the frame flag_dataset saves, disappears_t1 is true
\* exactly at distance 1, and
\* unsafe_to_trade exactly at distances 1 to HOLDING_PERIOD, for every
\* configured holding period
C10_UnsafeWithinHoldingPeriod ==
  stage = "load" =>
    \A r \in FlaggedRows :
      /\ r.disappears_t1 <=> (r.days_to_vanish_trading = 1)
      /\ r.unsafe_to_trade <=>
           (1 <= r.days_to_vanish_trading /\ r.days_to_vanish_trading <= HOLDING_PERIOD)

\* C10 amended: in the frame flag_dataset saves, disappears_t1 is true
\* exactly at distance 1, and
\* unsafe_to_trade exactly at distances 1 to 3, the horizon the flagger fixes;
\* it is the window of the rebalance engine when HOLDING_PERIOD is 3
C10_UnsafeWithinThreeDays ==
  stage = "load" =>
    \A r \in FlaggedRows :
      /\ r.disappears_t1 <=> (r.days_to_vanish_trading = 1)
      /\ r.unsafe_to_trade <=>
           (1 <= r.days_to_vanish_trading /\ r.days_to_vanish_trading <= 3)
      /\ HOLDING_PERIOD = 3 =>
           (r.unsafe_to_trade <=>
              (1 <= r.days_to_vanish_trading /\ r.days_to_vanish_trading <= HOLDING_PERIOD))

\* a flagged panel with a record at distance 3, unsafe, and a record at
\* distance 4, safe, under a holding period other than 3
C10_Witness ==
  /\ stage = "load"
  /\ HOLDING_PERIOD # 3
  /\ \E r \in FlaggedRows : r.days_to_vanish_trading = 3 /\ r.unsafe_to_trade
  /\ \E r \in FlaggedRows : r.days_to_vanish_trading = 4 /\ ~r.unsafe_to_trade
  /\ \E r \in FlaggedRows : r.days_to_vanish_trading = 1 /\ r.disappears_t1

\* ------------------------------------- flag_dataset on a frame as read
\* the rows a frame is made of; a frame may hold a row more than once
FrameRows ==
  {[date |-> d, ticker |-> t, close |-> 1, signal |-> t]
   : d \in 0..(FlagDates - 1), t \in 1..FlagTickers}

Frames == UNION {[1..n -> FrameRows] : n \in 0..MaxRows}

\* line 34: sort_values on two columns is a stable sort, rows of equal ticker
\* and date stay in the order of the frame
SortValues(frame) ==
  LET before(q, p) ==
        \/ frame[q].ticker < frame[p].ticker
        \/ frame[q].ticker = frame[p].ticker /\ frame[q].date < frame[p].date
        \/ frame[q].ticker = frame[p].ticker /\ frame[q].date = frame[p].date /\ q < p
      place(p) == Cardinality({q \in DOMAIN frame : before(q, p)}) + 1
  IN  [k \in DOMAIN frame |-> frame[CHOOSE p \in DOMAIN frame : place(p) = k]]

\* the distance of a row taken as the number of rows of its ticker below it in
\* the frame as read: cumcount(ascending=False), the frame left unsorted
flag_frame_as_read(frame) ==
  [p \in DOMAIN frame |->
     LET days == Cardinality({q \in DOMAIN frame :
                                frame[q].ticker = frame[p].ticker /\ q > p})
     IN  [date |-> frame[p].date, ticker |-> frame[p].ticker,
          close |-> frame[p].close, signal |-> frame[p].signal,
          days_to_vanish_trading |-> days,
          disappears_t1 |-> (days = 1),
          disappears_t2 |-> (days = 2),
          disappears_t3 |-> (days = 3),
          unsafe_to_trade |-> Between(days, UNSAFE_FROM, UNSAFE_TO)]]

\* lines 30-89: the frame flag_dataset saves for the frame it reads; no line
\* of it looks for a repeated key, and none raises
flag_frame(frame) ==
  LET sorted == SortValues(frame)
  IN  [p \in DOMAIN sorted |-> FlaggedRow(sorted, p)]

\* the derived columns dropped from a saved frame
StripFlags(frame) ==
  [p \in DOMAIN frame |->
     [date |-> frame[p].date, ticker |-> frame[p].ticker,
      close |-> frame[p].close, signal |-> frame[p].signal]]

\* the orders the rows of a frame of n rows can be put in
RowOrders(n) == {f \in [1..n -> 1..n] : \A a, b \in 1..n : a # b => f[a] # f[b]}

FlagInit ==
  /\ GenIdle
  /\ NoCall
  /\ TradeIdle
  /\ PriceIdle
  /\ flag_input \in Frames
  /\ flag_output = <<>>
  /\ reflag_input = <<>>
  /\ reflag_output = <<>>
  /\ flag_pc = "read"

\* flag_dataset on the frame read
FlagRun ==
  /\ flag_pc = "read"
  /\ flag_output' = flag_frame(flag_input)
  /\ flag_pc' = "flagged"
  /\ UNCHANGED <<genVars, selVars, tradeVars, priceVars, flag_input, reflag_input,
                 reflag_output>>

\* flag_dataset again, on the saved frame with its derived columns dropped
\* and its rows in any order
FlagAgain ==
  /\ flag_pc = "flagged"
  /\ \E order \in RowOrders(Len(flag_output)) :
       LET stripped == StripFlags(flag_output)
           reordered == [p \in DOMAIN stripped |-> stripped[order[p]]]
       IN  /\ reflag_input' = reordered
           /\ reflag_output' = flag_frame(reordered)
  /\ flag_pc' = "reflagged"
  /\ UNCHANGED <<genVars, selVars, tradeVars, priceVars, flag_input, flag_output>>

FlagNext == FlagRun \/ FlagAgain

SpecFlag == FlagInit /\ [][FlagNext]_vars

\* two rows of the frame with the same ticker and date
HasDuplicateKey(frame) ==
  \E a, b \in DOMAIN frame :
    a # b /\ frame[a].ticker = frame[b].ticker /\ frame[a].date = frame[b].date

\* C11: when the frame given to the flagger holds two rows with the same
\* (ticker, date), the run ends in an error and saves no flagged frame
C11_DuplicateKeyRejected ==
  HasDuplicateKey(flag_input) => flag_pc \in {"read", "error"} /\ flag_output = <<>>

\* C12: a configuration whose N_LONGS + N_SHORTS is larger than the pool left
\* by the filters is refused before any rebalance day is processed: the loop
\* never gets past a rebalance day, away from the tail of the calendar, whose
\* survivors are fewer than N_LONGS + N_SHORTS
C12_ConfigurationRefused ==
  \A k \in DaysBuilt :
    (k % HOLDING_PERIOD = 0 /\ k + HOLDING_PERIOD < Len(dates)) =>
      Cardinality(Survivors(k)) >= N_LONGS + N_SHORTS

\* ------------------------------------------- simulate_next on one state
\* Prices are in quarters, the factor 1 + drift + shock in halves; the shock
\* is a normal draw, so the factor can be any value of either sign.
Factors == (0 - MaxFactor)..MaxFactor

\* the test on the computed price taken as next_price < 0
simulate_next_strict(price, factor) ==
  LET next_price == (price * factor) \div 2
  IN  IF next_price < 0 THEN Max2(PRICE_FLOOR, price \div 2) ELSE next_price

\* lines 91-100: the price simulate_next stores and returns
simulate_next(price, factor) ==
  LET next_price == (price * factor) \div 2
  IN  IF next_price <= 0 THEN Max2(PRICE_FLOOR, price \div 2) ELSE next_price

\* lines 70-73, 112: a state starts from a price drawn from uniform(50, 200)
PriceInit ==
  /\ GenIdle
  /\ NoCall
  /\ TradeIdle
  /\ FlagIdle
  /\ last_price \in 1..MaxInitPrice
  /\ ticks = <<>>

\* lines 201-204: one call of simulate_next, its price recorded
SimulateNext ==
  /\ last_price > 0 /\ Len(ticks) < MaxTicks
  /\ \E factor \in Factors :
       /\ last_price' = simulate_next(last_price, factor)
       /\ ticks' = Append(ticks, [factor |-> factor,
                                   price |-> simulate_next(last_price, factor)])
  /\ UNCHANGED <<genVars, selVars, tradeVars, flagVars>>

PriceNext == SimulateNext

SpecPrice == PriceInit /\ [][PriceNext]_vars

\* C13: every price simulate_next stores and returns is strictly positive,
\* whatever the factor drawn, and is at least the floor 0.5 when the factor
\* is not positive
C13_PricesPositive ==
  \A j \in DOMAIN ticks :
    /\ ticks[j].price > 0
    /\ ticks[j].factor <= 0 => ticks[j].price >= PRICE_FLOOR
    /\ j = Len(ticks) => last_price = ticks[j].price

\* a state whose computed price was negative, then zero, both replaced
C13_Witness ==
  /\ Len(ticks) >= 2
  /\ \E j \in DOMAIN ticks : ticks[j].factor < 0 /\ ticks[j].price > 0
  /\ \E j \in DOMAIN ticks : ticks[j].factor = 0 /\ ticks[j].price > 0

\* the key and the derived columns of the rows of a saved frame
DerivedColumns(frame) ==
  {[date |-> frame[p].date, ticker |-> frame[p].ticker,
    days_to_vanish_trading |-> frame[p].days_to_vanish_trading,
    disappears_t1 |-> frame[p].disappears_t1,
    unsafe_to_trade |-> frame[p].unsafe_to_trade] : p \in DOMAIN frame}

\* C14: on a panel without a repeated key, the flagger run again on the saved
\* frame, its derived columns dropped and its rows in any order, gives every
\* (ticker, date) row the same days_to_vanish_trading, disappears_t1 and
\* unsafe_to_trade as the first run
C14_ReflagReproduces ==
  (flag_pc = "reflagged" /\ ~HasDuplicateKey(flag_input)) =>
    /\ Len(reflag_output) = Len(flag_output)
    /\ DerivedColumns(reflag_output) = DerivedColumns(flag_output)

\* a second run on three rows put in another order than the first run read
\* them in and than it saved them in, two of them of one ticker
C14_Witness ==
  /\ flag_pc = "reflagged"
  /\ ~HasDuplicateKey(flag_input)
  /\ Len(flag_input) = 3
  /\ reflag_input # flag_input
  /\ reflag_input # StripFlags(flag_output)
  /\ \E p \in DOMAIN reflag_output : reflag_output[p].disappears_t1

\* the rebalance days the loop has completed
RebalanceDaysBuilt == {k \in DaysBuilt : k % HOLDING_PERIOD = 0}

\* C15: on every rebalance day, a column holds LONG_W or SHORT_W when its
\* ticker is one of the longs or shorts of the day, and exactly 0.0 otherwise,
\* also when the ticker has no record on the day; on any day, no cell holds
\* anything but NaN, 0.0, LONG_W or SHORT_W
C15_OnlyZeroOrTargetWeights ==
  /\ \A k \in RebalanceDaysBuilt :
       LET pool == Survivors(k)
       IN  \A t \in Columns :
             /\ WeightAt(k, t) \in {Num(0), Num(LONG_W), Num(SHORT_W)}
             /\ t \notin pool => WeightAt(k, t) = Num(0)
             /\ signals[k + 1][t] = NaN => WeightAt(k, t) = Num(0)
  /\ LET written == {NaN, Num(0), Num(LONG_W), Num(SHORT_W)}
     IN  \A k \in DOMAIN weights : \A t \in Columns : weights[k][t] \in written

\* a finished build with a rebalance day that has a long, a short and a
\* ticker without a record on the day, left at 0.0
C15_Witness ==
  /\ stage = "done"
  /\ \E k \in RebalanceDaysBuilt : \E a, b, d \in Columns :
       /\ WeightAt(k, a) = Num(LONG_W)
       /\ WeightAt(k, b) = Num(SHORT_W)
       /\ signals[k + 1][d] = NaN /\ WeightAt(k, d) = Num(0)

\* C16: on every rebalance day with index k such that k + HOLDING_PERIOD is
\* at or past the number of dates, no ticker gets a nonzero weight: the whole
\* row is 0.0
C16_TailRowsAllZero ==
  \A k \in RebalanceDaysBuilt :
    k + HOLDING_PERIOD >= Len(dates) =>
      \A t \in Columns : WeightAt(k, t) = Num(0)

\* a finished build whose last rebalance day is in the tail of the calendar
\* and has a ticker that is tradable on it
C16_Witness ==
  /\ stage = "done"
  /\ \E k \in RebalanceDaysBuilt :
       /\ k + HOLDING_PERIOD >= Len(dates)
       /\ Tradable(k) # {}
       /\ \A t \in Columns : WeightAt(k, t) = Num(0)

\* C17: a ticker gets a nonzero weight on a rebalance day only if the flagged
\* panel has a record of it on that date, with unsafe_to_trade false; in the
\* unsafe pivot the loop starts from, a ticker without a record on a date
\* counts as unsafe
C17_OnlySafeRecordedTickers ==
  /\ \A k \in RebalanceDaysBuilt : \A t \in Selected(k) :
       \E p \in DOMAIN flagged_df :
         /\ flagged_df[p].ticker = t
         /\ flagged_df[p].date = dates[k + 1]
         /\ flagged_df[p].unsafe_to_trade = FALSE
  /\ (stage = "loop" /\ date_i = 0) =>
       \A k \in DOMAIN unsafe : \A t \in Columns :
         (~\E p \in DOMAIN flagged_df :
             flagged_df[p].ticker = t /\ flagged_df[p].date = dates[k]) =>
           unsafe[k][t] = TRUE

\* a finished build with a rebalance day on which a ticker is selected, a
\* ticker with prices through the window is flagged unsafe, and a ticker
\* has no record
C17_Witness ==
  /\ stage = "done"
  /\ \E k \in RebalanceDaysBuilt :
       /\ Selected(k) # {}
       /\ \E t \in Columns :
            /\ \E r \in FlaggedRows :
                 r.ticker = t /\ r.date = dates[k + 1] /\ r.unsafe_to_trade
            /\ \A off \in 0..HOLDING_PERIOD : prices[k + off + 1][t] # NaN
       /\ \E t \in Columns : signals[k + 1][t] = NaN

\* the tickers holding the long weight, and the short weight, on day k
LongsOn(k) == {t \in Columns : WeightAt(k, t) = Num(LONG_ALLOCATION \div N_LONGS)}

ShortsOn(k) == {t \in Columns : WeightAt(k, t) = Num(SHORT_ALLOCATION \div N_SHORTS)}

\* C18: on every rebalance day whose survivors are at least N_LONGS + N_SHORTS
\* with pairwise distinct signals, exactly N_LONGS survivors hold
\* LONG_ALLOCATION / N_LONGS and exactly N_SHORTS hold SHORT_ALLOCATION /
\* N_SHORTS, no ticker is in both sets, every long has a higher signal and
\* every short a lower signal than every survivor left unselected
C18_TopLongsBottomShorts ==
  \A k \in RebalanceDaysBuilt :
    (Cardinality(Survivors(k)) >= N_LONGS + N_SHORTS /\ SurvivorSignalsDistinct(k)) =>
      LET pool == Survivors(k)
          longs == LongsOn(k)
          shorts == ShortsOn(k)
          rest == pool \ (longs \cup shorts)
      IN  /\ longs \subseteq pool
          /\ shorts \subseteq pool
          /\ Cardinality(longs) = N_LONGS
          /\ Cardinality(shorts) = N_SHORTS
          /\ longs \cap shorts = {}
          /\ Selected(k) = longs \cup shorts
          /\ \A a \in longs, b \in rest \cup shorts :
               signals[k + 1][a][1] > signals[k + 1][b][1]
          /\ \A a \in shorts, b \in rest \cup longs :
               signals[k + 1][a][1] < signals[k + 1][b][1]

\* a finished build with a rebalance day that has more survivors of distinct
\* signals than longs and shorts, one of them left unselected
C18_Witness ==
  /\ stage = "done"
  /\ \E k \in RebalanceDaysBuilt :
       /\ Cardinality(Survivors(k)) > N_LONGS + N_SHORTS
       /\ SurvivorSignalsDistinct(k)
       /\ LongsOn(k) # {} /\ ShortsOn(k) # {}
       /\ Survivors(k) \ Selected(k) # {}

\* the days of the vanish events so far
EventDays == {e.day : e \in vanish_log}

\* the vanish events are spaced by gaps drawn from vanish_gap_options, the
\* first counted from day 0, and so is the next one scheduled
OnSchedule ==
  /\ \A d \in EventDays :
       LET earlier == {e \in EventDays : e < d}
       IN  IF earlier = {} THEN d \in VANISH_GAP_OPTIONS
           ELSE \E e \in earlier :
                  /\ \A f \in earlier : f <= e
                  /\ d - e \in VANISH_GAP_OPTIONS
  /\ next_vanish_day # -1 =>
       IF EventDays = {} THEN next_vanish_day \in VANISH_GAP_OPTIONS
       ELSE \E e \in EventDays :
              /\ \A f \in EventDays : f <= e
              /\ next_vanish_day - e \in VANISH_GAP_OPTIONS
              /\ next_vanish_day < NumDays

\* C19: the vanish events follow the schedule: the first is on a day index
\* drawn from vanish_gap_options and each later one a drawn gap after the one
\* before; once the drawn next index is at or past the calendar length no
\* vanish event occurs any more; and a day that is not a vanish day leaves
\* the id counter alone and changes the active list by the pending removal only
C19_VanishSchedule ==
  [][/\ OnSchedule /\ OnSchedule'
     /\ next_vanish_day = -1 => (next_vanish_day' = -1 /\ vanish_log' = vanish_log)
     /\ vanish_log' # vanish_log =>
          (i = next_vanish_day /\ vanish_log' \ vanish_log \subseteq {e \in vanish_log' : e.day = i})
     /\ (i' = i + 1 /\ i # next_vanish_day) =>
          /\ vanish_log' = vanish_log
          /\ next_id' = next_id
          /\ next_vanish_day' = next_vanish_day
          /\ active' = RemoveEach(active, to_remove_next_day)]_vars

\* a finished run with two vanish events, a quiet day after the first, and
\* no further event scheduled
C19_Witness ==
  /\ pc = "done"
  /\ Cardinality(EventDays) >= 2
  /\ next_vanish_day = -1

\* the number of records of ticker t on day d
RecordCount(d, t) ==
  Cardinality({k \in DOMAIN history_records : history_records[k] = <<d, t>>})

\* C20: the panel of the generator holds one record for every ticker on every
\* day it is recorded, no (date, ticker) pair twice, in the records and in the
\* frame made of them
C20_OneRecordPerTickerDay ==
  /\ \A k \in DOMAIN history_records :
       RecordCount(history_records[k][1], history_records[k][2]) = 1
  /\ pc = "done" =>
       \A a, b \in DOMAIN df : a # b => df[a] # df[b]
  /\ pc = "loop" =>
       \A t \in Range(active) \ UNION {e.names : e \in {f \in vanish_log : f.day = i - 1}} :
         i > 0 => RecordCount(i - 1, t) = 1

\* a finished panel in which a replacement has records next to tickers of the
\* initial universe that never vanished
C20_Witness ==
  /\ pc = "done"
  /\ \E e \in vanish_log : \E t \in e.names : RecordCount(e.day + 1, t) = 1
  /\ \E t \in 1..initial_universe : \A d \in 0..(NumDays - 1) : RecordCount(d, t) = 1

\* C21: at each vanish event of a universe of two tickers or more, the
\* tickers retired are at most the active count less one, so a ticker that
\* was active on the vanish day is still active the day after
C21_BatchLeavesOneActive ==
  initial_universe >= 2 =>
    \A e \in vanish_log :
      /\ Cardinality(e.batch) <= initial_universe - 1
      /\ e.day + 1 < i => RecordedOn(e.day) \cap RecordedOn(e.day + 1) # {}

\* the last day the loop wrote, when it is a rebalance day
LastRebalanceBuilt ==
  IF stage = "loop" /\ date_i >= 1 /\ IsRebalanceDay(date_i - 1)
  THEN {date_i - 1} ELSE {}

\* the weights of day k are those of the long slice L and the short slice S
\* that overlap, with every shared ticker on the short weight
SlicesOverlapAsShorts(k, pool) ==
  LET S == ShortsOn(k)
      onlyLong == LongsOn(k)
  IN  /\ Cardinality(onlyLong) < N_LONGS
      /\ S \in ShortChoices(k, pool)
      /\ \E L \in LongChoices(k, pool) :
           /\ L \cap S # {}
           /\ onlyLong = L \ S

\* C22 as stated: on a rebalance date whose survivor pool has fewer than
\* N_LONGS + N_SHORTS tickers, the long and short slices overlap, the shared
\* tickers carry SHORT_W, and fewer than N_LONGS tickers carry LONG_W
C22_SmallPoolOverlaps ==
  \A k \in LastRebalanceBuilt :
    LET pool == Survivors(k)
    IN  Cardinality(pool) < N_LONGS + N_SHORTS => SlicesOverlapAsShorts(k, pool)

\* C22: on a rebalance date whose survivor pool is not empty and has fewer
\* than N_LONGS + N_SHORTS tickers, the long and short slices overlap, the
\* shared tickers carry SHORT_W, and fewer than N_LONGS tickers carry LONG_W
C22_SmallNonEmptyPoolOverlaps ==
  \A k \in LastRebalanceBuilt :
    LET pool == Survivors(k)
    IN  /\ pool # {}
        /\ Cardinality(pool) < N_LONGS + N_SHORTS
        => SlicesOverlapAsShorts(k, pool)

\* a rebalance day with two longs and two shorts asked for and three
\* survivors: the middle one is in both slices and is short, one long is left
C22_Witness ==
  /\ N_LONGS = 2 /\ N_SHORTS = 2
  /\ \E k \in LastRebalanceBuilt :
       /\ Cardinality(Survivors(k)) = 3
       /\ Cardinality(ShortsOn(k)) = 2
       /\ Cardinality(LongsOn(k)) = 1

\* the number of places of the active list that hold ticker t
Occurrences(t) == Cardinality({k \in DOMAIN active : active[k] = t})

\* C23: at the start of every day of the generation loop every ticker pending
\* removal is exactly once in the active list and is in the states map, so the
\* removal step does not fail; no ticker is in the batch of two vanish events
\* or twice in one, and no replacement created at an event is in its batch
C23_PendingRemovalsPresentOnce ==
  pc = "loop" =>
    /\ \A t \in to_remove_next_day : Occurrences(t) = 1 /\ t \in states
    /\ ~RemovalRaises
    /\ \A e1, e2 \in vanish_log : e1 # e2 => e1.batch \cap e2.batch = {}
    /\ \A e \in vanish_log :
         /\ Cardinality(e.batch) = Cardinality(e.names)
         /\ e.batch \cap e.names = {}

\* the start of the day after a second vanish event, whose batch, still to
\* be removed, holds a replacement created at the first event
C23_Witness ==
  /\ pc = "loop"
  /\ to_remove_next_day # {}
  /\ \E e1, e2 \in vanish_log :
       /\ e1.day < e2.day
       /\ e2.day = i - 1
       /\ e2.batch = to_remove_next_day
       /\ e2.batch \cap e1.names # {}

\* C24: a call of select_vanish_batch on a pool of n >= 2 tickers with
\* batch_size <= n - 1 does not raise: whichever ticker of the top stratum is
\* picked, the bottom stratum has another ticker, and the batch returned is
\* made of distinct tickers of the pool, so the fill took no more than were left
C24_SelectCompletes ==
  /\ call \in {"ready", "returned", "raised"}
  /\ Len(active_tickers) >= 2
  /\ batch_size <= Len(active_tickers) - 1
  => /\ call # "raised"
     /\ \A t \in Range(active_tickers) :
          InTopStratum(t) =>
            \E b \in Range(active_tickers) \ {t} : InBottomStratum(b)
     /\ call = "returned" =>
          /\ ChosenTickers(chosen) \subseteq Range(active_tickers)
          /\ Cardinality(ChosenTickers(chosen)) = Len(chosen)

\* a call on the largest pool with the largest batch size the clamp allows:
\* the three stratum picks and one ticker of the random fill, one left over
C24_Witness ==
  /\ call = "returned"
  /\ Len(active_tickers) = MaxPool
  /\ batch_size = MaxDrawn
  /\ Len(chosen) = MaxDrawn
  /\ Len(chosen) > 3

====
